---------------------------- MODULE Spec2Model ----------------------------
(***************************************************************************)
(* A model of the FEP-FEM broker core: the envelope signer/verifier        *)
(* (protocol/go/envelopes.go), the broker's request dispatcher and         *)
(* handlers (broker main.go), the MCP registry the handlers call and the   *)
(* capability-token validator described by the protocol specification.    *)
(*                                                                         *)
(* Three specifications share the module:                                  *)
(*   SpecEnv   one Envelope object under Sign / Verify / field writes      *)
(*   SpecAuth  the pure decision function authorize on bounded inputs      *)
(*   Spec      the broker serving requests (ServeHTTP and its handlers)    *)
(***************************************************************************)
EXTENDS Integers, Sequences, FiniteSets, TLC

VARIABLES
    \* ---- SpecEnv: one *Envelope and the outcome of the last call on it
    e,            \* the Envelope struct (envelopes.go:206-210)
    signedBy,     \* the key e was signed with, "none" once e was written since
    envOp,        \* [op, key, err] of the last Sign / Verify call
    \* ---- SpecAuth: inputs and result of authorize
    tok, op, authNow, revokedSet, decision,
    \* ---- Spec: the broker
    agents,       \* Broker.agents      map[string]*Agent
    mcpAgents,    \* MCPRegistry agents map[string]*MCPAgent
    toolIndex,    \* MCPRegistry discovery index: set of <<tool, agent id>>
    now,          \* the broker's clock (time.Now())
    seen,         \* (agent, nonce) pairs whose envelope reached a handler
    last,         \* the request served last and what became of it
    \* ---- SpecConc: handlers running concurrently
    upd,          \* the goroutine in handleEmbodimentUpdate
    rg,           \* the goroutine in handleRegisterAgent
    committed,    \* the whole records the operations begun so far install
    \* ---- SpecNonce: envelopes made by NewEnvelope
    made,         \* the envelopes made so far, in order
    \* ---- SpecVerify: goroutines calling Verify on the envelope e
    ver,          \* each goroutine's position and local variables
    \* ---- SpecLive: requests served under the broker's lock
    srv,          \* each goroutine's position, request and responses written
    mu            \* Broker.mu: "free" or the goroutine that holds it

envVars    == <<e, signedBy, envOp>>
authVars   == <<tok, op, authNow, revokedSet, decision>>
brokerVars == <<agents, mcpAgents, toolIndex, now, seen, last>>
concVars   == <<upd, rg, committed>>
auxVars    == <<made, ver, srv, mu>>
vars       == <<e, signedBy, envOp,
                tok, op, authNow, revokedSet, decision,
                agents, mcpAgents, toolIndex, now, seen, last,
                upd, rg, committed, made, ver, srv, mu>>

(***************************************************************************)
(* Bounds of the model                                                     *)
(***************************************************************************)
MaxTime == 2          \* the clock runs over 0..MaxTime

MaxMade == 2          \* NewEnvelope is called at most MaxMade times
TicksPerSecond == 2   \* clock readings per second of the model's clock
MaxAltered == 1       \* fields of a signed envelope written since it was signed

AgentIds == {"worker-1", "worker-2"}
Nonces   == {"n1", "n2"}

(***************************************************************************)
(* Envelope types (envelopes.go:14-26) and one string outside the          *)
(* enumeration                                                             *)
(***************************************************************************)
EnvelopeRegisterAgent     == "registerAgent"
EnvelopeRegisterBroker    == "registerBroker"
EnvelopeEmitEvent         == "emitEvent"
EnvelopeRenderInstruction == "renderInstruction"
EnvelopeToolCall          == "toolCall"
EnvelopeToolResult        == "toolResult"
EnvelopeRevoke            == "revoke"
EnvelopeDiscoverTools     == "discoverTools"
EnvelopeToolsDiscovered   == "toolsDiscovered"
EnvelopeEmbodimentUpdate  == "embodimentUpdate"

EnvelopeTypes ==
    { EnvelopeRegisterAgent, EnvelopeRegisterBroker, EnvelopeEmitEvent,
      EnvelopeRenderInstruction, EnvelopeToolCall, EnvelopeToolResult,
      EnvelopeRevoke, EnvelopeDiscoverTools, EnvelopeToolsDiscovered,
      EnvelopeEmbodimentUpdate }

(***************************************************************************)
(* Keys.  An Ed25519 key pair is a private key and the public key derived  *)
(* from it; each agent owns one pair, and "k-mallory" belongs to nobody    *)
(* the broker knows.                                                       *)
(***************************************************************************)
PrivKeys == {"k-worker-1", "k-worker-2", "k-mallory"}

PubOf(priv) == <<"pub", priv>>

PrivKeyOf(agent) == IF agent = "worker-1" THEN "k-worker-1" ELSE "k-worker-2"

PubKeyOf(agent) == PubOf(PrivKeyOf(agent))

(***************************************************************************)
(* Signatures.  The Sig header is a string: empty, base64 text, or text    *)
(* that is not base64.  Base64 text decodes to bytes; the bytes are an     *)
(* Ed25519 signature (which key made it, over which message) or junk.      *)
(***************************************************************************)
NoSig      == [kind |-> "empty"]
NotBase64  == [kind |-> "notbase64"]
JunkBytes  == [signer |-> "nobody", msg |-> [junk |-> TRUE]]

\* base64.StdEncoding.EncodeToString / DecodeString (envelopes.go:225, 323)
Base64Encode(bytes) == [kind |-> "base64", bytes |-> bytes]

\* the empty string decodes to no bytes, without error
NoBytes == [signer |-> "nobody", msg |-> [junk |-> FALSE]]

Base64Decode(s) ==
    IF s.kind = "base64" THEN [ok |-> TRUE, bytes |-> s.bytes]
    ELSE IF s.kind = "empty" THEN [ok |-> TRUE, bytes |-> NoBytes]
    ELSE [ok |-> FALSE, bytes |-> JunkBytes]

\* ed25519.Sign / ed25519.Verify (envelopes.go:224, 340)
Ed25519Sign(priv, data) == [signer |-> priv, msg |-> data]

Ed25519Verify(pub, data, sigBytes) ==
    /\ sigBytes.signer \in PrivKeys
    /\ PubOf(sigBytes.signer) = pub
    /\ sigBytes.msg = data

(***************************************************************************)
(* Bodies.  Body is a json.RawMessage: raw bytes that may or may not be    *)
(* valid JSON and may carry insignificant white space.  val is the JSON    *)
(* value the bytes denote.                                                 *)
(***************************************************************************)
RawBody(val) == [valid |-> TRUE, ws |-> FALSE, val |-> val]

Spaced(body) == [body EXCEPT !.ws = TRUE]

InvalidRaw == [valid |-> FALSE, ws |-> FALSE, val |-> [kind |-> "garbage"]]

\* encoding/json compacts a RawMessage while marshalling it
Compact(body) == [body EXCEPT !.ws = FALSE]

(***************************************************************************)
(* json.Marshal of an Envelope (envelopes.go:206-210, 29-34): every field  *)
(* in declaration order, sig left out when empty (omitempty), the body     *)
(* compacted; an error when the body is not valid JSON.                    *)
(***************************************************************************)
MarshalNoNonce(env) ==
    IF ~env.body.valid
    THEN [ok |-> FALSE, data |-> [junk |-> FALSE]]
    ELSE [ok |-> TRUE,
          data |-> [type |-> env.type, agent |-> env.agent, ts |-> env.ts,
                    nonce |-> "", sig |-> env.sig,
                    body |-> Compact(env.body)]]

Marshal(env) ==
    IF ~env.body.valid
    THEN [ok |-> FALSE, data |-> [junk |-> FALSE]]
    ELSE [ok |-> TRUE,
          data |-> [type |-> env.type, agent |-> env.agent, ts |-> env.ts,
                    nonce |-> env.nonce, sig |-> env.sig,
                    body |-> Compact(env.body)]]

(***************************************************************************)
(* Envelope.Sign (envelopes.go:213-228).  Returns the envelope as the call *)
(* leaves it and the error.  The signature is cleared before marshalling   *)
(* and stays cleared when marshalling fails.                               *)
(***************************************************************************)
SignKeepingSig(env, priv) ==
    LET m == Marshal(env)
    IN  IF ~m.ok
        THEN [env |-> [env EXCEPT !.sig = NoSig], err |-> "marshal"]
        ELSE [env |-> [env EXCEPT !.sig = Base64Encode(Ed25519Sign(priv, m.data))],
              err |-> "nil"]

\* a Sign that leaves an envelope alone when it carries a signature already
SignOnlyUnsigned(env, priv) ==
    LET m == Marshal(env)
    IN  IF env.sig # NoSig
        THEN [env |-> env, err |-> "nil"]
        ELSE IF ~m.ok
             THEN [env |-> env, err |-> "marshal"]
             ELSE [env |-> [env EXCEPT !.sig = Base64Encode(Ed25519Sign(priv, m.data))],
                   err |-> "nil"]

Sign(env, priv) ==
    LET cleared == [env EXCEPT !.sig = NoSig]
        m       == Marshal(cleared)
    IN  IF ~m.ok
        THEN [env |-> cleared, err |-> "marshal"]
        ELSE [env |-> [cleared EXCEPT !.sig = Base64Encode(Ed25519Sign(priv, m.data))],
              err |-> "nil"]

(***************************************************************************)
(* Envelope.Verify (envelopes.go:317-345).  The signature is cleared for   *)
(* the marshalling and put back by the deferred function on every return   *)
(* after line 331.                                                         *)
(***************************************************************************)
\* a Verify without the check of line 318: an empty signature is decoded
\* and compared as any other
VerifyUnchecked(env, pub) ==
    LET dec == Base64Decode(env.sig)
    IN  IF ~dec.ok
        THEN [env |-> env, err |-> "invalid signature encoding"]
        ELSE IF ~Marshal([env EXCEPT !.sig = NoSig]).ok
             THEN [env |-> env, err |-> "marshal"]
             ELSE IF ~Ed25519Verify(pub, Marshal([env EXCEPT !.sig = NoSig]).data,
                                    dec.bytes)
                  THEN [env |-> env, err |-> "signature verification failed"]
                  ELSE [env |-> env, err |-> "nil"]

\* a Verify without the deferred function: the signature stays cleared
VerifyNoRestore(env, pub) ==
    IF env.sig = NoSig
    THEN [env |-> env, err |-> "envelope has no signature"]
    ELSE LET dec == Base64Decode(env.sig)
         IN  IF ~dec.ok
             THEN [env |-> env, err |-> "invalid signature encoding"]
             ELSE LET cleared == [env EXCEPT !.sig = NoSig]
                      m       == Marshal(cleared)
                  IN  IF ~m.ok
                      THEN [env |-> cleared, err |-> "marshal"]
                      ELSE IF ~Ed25519Verify(pub, m.data, dec.bytes)
                           THEN [env |-> cleared, err |-> "signature verification failed"]
                           ELSE [env |-> cleared, err |-> "nil"]

Verify(env, pub) ==
    IF env.sig = NoSig
    THEN [env |-> env, err |-> "envelope has no signature"]
    ELSE LET dec == Base64Decode(env.sig)
         IN  IF ~dec.ok
             THEN [env |-> env, err |-> "invalid signature encoding"]
             ELSE LET cleared == [env EXCEPT !.sig = NoSig]
                      m       == Marshal(cleared)
                      back    == [cleared EXCEPT !.sig = env.sig]
                  IN  IF ~m.ok
                      THEN [env |-> back, err |-> "marshal"]
                      ELSE IF ~Ed25519Verify(pub, m.data, dec.bytes)
                           THEN [env |-> back, err |-> "signature verification failed"]
                           ELSE [env |-> back, err |-> "nil"]

(***************************************************************************)
(* SpecEnv: an Envelope object, signed, verified and written to            *)
(***************************************************************************)
EnvTypesUsed == {EnvelopeRegisterAgent, EnvelopeEmitEvent}

EnvKeys == {"k-worker-1", "k-mallory"}

EnvBodies ==
    { RawBody([kind |-> "object"]), Spaced(RawBody([kind |-> "object"])),
      RawBody([kind |-> "null"]), InvalidRaw }

Unsigned(type, agent, ts, nonce, body) ==
    [type |-> type, agent |-> agent, ts |-> ts, nonce |-> nonce,
     sig |-> NoSig, body |-> body]

\* the signatures an envelope may carry before anything is called on it
PriorSigs(env) ==
    { NoSig, NotBase64, Base64Encode(JunkBytes), Sign(env, "k-worker-1").env.sig }

\* how many header fields and body differ from what the signature was made over
Altered(env) ==
    IF env.sig.kind # "base64" \/ env.sig.bytes.signer \notin PrivKeys
    THEN 0
    ELSE LET m == env.sig.bytes.msg
         IN  Cardinality({ f \in {"type", "agent", "ts", "nonce", "body"} :
                              m[f] # env[f] })

\* the call made last: its key, its result, and the signature the envelope
\* carried when it was made
NoOp == [op |-> "none", key |-> "none", err |-> "nil", prior |-> NoSig]

InitEnvVars ==
    /\ \E type \in EnvTypesUsed, agent \in AgentIds, ts \in {0, MaxTime},
          nonce \in Nonces, body \in EnvBodies :
          LET u == Unsigned(type, agent, ts, nonce, body)
          IN  \E s \in PriorSigs(u) : e = [u EXCEPT !.sig = s]
    /\ signedBy = "none"
    /\ envOp = NoOp

EnvSign(priv) ==
    LET r == Sign(e, priv)
    IN  /\ e' = r.env
        /\ envOp' = [op |-> "Sign", key |-> priv, err |-> r.err, prior |-> e.sig]
        /\ signedBy' = IF r.err = "nil" THEN priv ELSE "none"

EnvVerify(priv) ==
    LET r == Verify(e, PubOf(priv))
    IN  /\ e' = r.env
        /\ envOp' = [op |-> "Verify", key |-> priv, err |-> r.err, prior |-> e.sig]
        /\ UNCHANGED signedBy

\* a caller writes one field of the envelope (every field is exported)
EnvWrite ==
    /\ \/ \E v \in EnvTypesUsed : e' = [e EXCEPT !.type = v]
       \/ \E v \in AgentIds : e' = [e EXCEPT !.agent = v]
       \/ \E v \in {0, MaxTime} : e' = [e EXCEPT !.ts = v]
       \/ \E v \in Nonces : e' = [e EXCEPT !.nonce = v]
       \/ \E v \in EnvBodies : e' = [e EXCEPT !.body = v]
       \/ \E v \in {NoSig, NotBase64, Base64Encode(JunkBytes)} :
             e' = [e EXCEPT !.sig = v]
    /\ e' # e
    /\ Altered(e') <= MaxAltered
    /\ envOp' = [op |-> "Write", key |-> "none", err |-> "nil", prior |-> e.sig]
    /\ signedBy' = "none"

NextEnv ==
    /\ \/ \E k \in EnvKeys : EnvSign(k)
       \/ \E k \in EnvKeys : EnvVerify(k)
       \/ EnvWrite
    /\ UNCHANGED <<authVars, brokerVars, concVars, auxVars>>

(***************************************************************************)
(* Capability tokens (capability.schema.json).  A token is a JSON object;  *)
(* has is the set of properties it carries.                                *)
(***************************************************************************)
RequiredProperties == {"scope", "permissions", "iss", "sub", "iat", "exp"}

SchemaProperties == RequiredProperties \cup {"jti"}

\* the scope strings of the model and those matching ^scope:[a-z]+$
ScopeStrings == {"scope:local", "scope:trusted", "local", "scope:Local"}

MatchesScopePattern(s) == s \in {"scope:local", "scope:trusted"}

\* validity against the schema: required properties, the scope pattern,
\* additionalProperties false
SchemaValid(t) ==
    /\ RequiredProperties \subseteq t.has
    /\ t.has \subseteq SchemaProperties
    /\ MatchesScopePattern(t.scope)

\* the operation classes a scope admits: the local scope covers what an
\* agent does for itself, the trusted scope also covers administration
ScopePermits(scope, operation) ==
    \/ scope = "scope:trusted"
    \/ /\ scope = "scope:local"
       /\ operation \notin {EnvelopeRevoke, EnvelopeRegisterBroker}

InPermissions(operation, permissions) ==
    \E i \in 1..Len(permissions) : permissions[i] = operation

(***************************************************************************)
(* authorize(token, operation, now, revokedSet): the five checks in order, *)
(* the first failure decides.                                              *)
(***************************************************************************)
authorizeExpiryStrict(t, operation, time, revoked) ==
    IF ~SchemaValid(t) THEN "TokenMalformed"
    ELSE IF time > t.exp THEN "TokenExpired"
    ELSE IF ~ScopePermits(t.scope, operation) THEN "ScopeDenied"
    ELSE IF ~InPermissions(operation, t.permissions) THEN "PermissionDenied"
    ELSE IF "jti" \in t.has /\ t.jti \in revoked THEN "TokenRevoked"
    ELSE "allow"

authorizeScopeFirst(t, operation, time, revoked) ==
    IF ~SchemaValid(t) THEN "TokenMalformed"
    ELSE IF ~ScopePermits(t.scope, operation) THEN "ScopeDenied"
    ELSE IF time >= t.exp THEN "TokenExpired"
    ELSE IF ~InPermissions(operation, t.permissions) THEN "PermissionDenied"
    ELSE IF "jti" \in t.has /\ t.jti \in revoked THEN "TokenRevoked"
    ELSE "allow"

authorize(t, operation, time, revoked) ==
    IF ~SchemaValid(t) THEN "TokenMalformed"
    ELSE IF time >= t.exp THEN "TokenExpired"
    ELSE IF ~ScopePermits(t.scope, operation) THEN "ScopeDenied"
    ELSE IF ~InPermissions(operation, t.permissions) THEN "PermissionDenied"
    ELSE IF "jti" \in t.has /\ t.jti \in revoked THEN "TokenRevoked"
    ELSE "allow"

(***************************************************************************)
(* SpecAuth: authorize applied to bounded inputs                           *)
(***************************************************************************)
Jtis == {"jti-1", "jti-2"}

PermissionLists ==
    { <<>>, <<EnvelopeDiscoverTools>>,
      <<EnvelopeRegisterAgent, EnvelopeDiscoverTools>>, <<EnvelopeRevoke>> }

PropertySets ==
    { RequiredProperties, SchemaProperties,
      RequiredProperties \ {"exp"}, SchemaProperties \cup {"admin"} }

Token(has, scope, permissions, exp, jti) ==
    [has |-> has, scope |-> scope, permissions |-> permissions,
     iat |-> 0, exp |-> exp, jti |-> jti]

Tokens ==
    { Token(has, scope, permissions, exp, jti) :
        has \in PropertySets, scope \in ScopeStrings,
        permissions \in PermissionLists, exp \in 1..MaxTime, jti \in {"jti-1"} }

AuthOperations == {EnvelopeDiscoverTools, EnvelopeRegisterAgent, EnvelopeRevoke}

InitAuthVars ==
    /\ tok \in Tokens
    /\ op \in AuthOperations
    /\ authNow = 0
    /\ revokedSet = {}
    /\ decision = "none"

Authorize ==
    /\ decision' = authorize(tok, op, authNow, revokedSet)
    /\ UNCHANGED <<tok, op, authNow, revokedSet>>

AuthTick ==
    /\ authNow < MaxTime
    /\ authNow' = authNow + 1
    /\ decision' = "none"
    /\ UNCHANGED <<tok, op, revokedSet>>

AuthRevoke(j) ==
    /\ j \notin revokedSet
    /\ revokedSet' = revokedSet \cup {j}
    /\ decision' = "none"
    /\ UNCHANGED <<tok, op, authNow>>

NextAuth ==
    /\ \/ Authorize
       \/ AuthTick
       \/ \E j \in Jtis : AuthRevoke(j)
    /\ UNCHANGED <<envVars, brokerVars, concVars, auxVars>>


(***************************************************************************)
(* The MCP registry (NewMCPRegistry, RegisterAgent, GetAgent,              *)
(* DiscoverTools): called by the broker's handlers.  Maps are functions    *)
(* whose domain is the set of keys present.                                *)
(***************************************************************************)
EmptyMap == [x \in {} |-> 0]

MapPut(m, k, v) == [x \in (DOMAIN m) \cup {k} |-> IF x = k THEN v ELSE m[x]]

MapDelete(m, k) == [x \in (DOMAIN m) \ {k} |-> m[x]]

NilBodyDefinition == [isNil |-> TRUE, capabilities |-> {}, mcpTools |-> {}]

BodyDefinition(capabilities, mcpTools) ==
    [isNil |-> FALSE, capabilities |-> capabilities, mcpTools |-> mcpTools]

\* register(id, record): replaces the record and rebuilds the index entries
\* of id in one step
IndexRebuild(index, id, tools) ==
    { p \in index : p[2] # id } \cup { <<t, id>> : t \in tools }

RegistryRegisterAgent(registry, id, agent) ==
    [agents |-> MapPut(registry.agents, id, agent),
     index  |-> IndexRebuild(registry.index, id, agent.Tools)]

\* get(id)
RegistryGetAgent(registry, id) == id \in DOMAIN registry.agents

\* the capability set of a registry record
CapabilitiesOf(agent) ==
    IF agent.BodyDefinition.isNil THEN {} ELSE agent.BodyDefinition.capabilities

Intersecting(agent, query) ==
    Cardinality(CapabilitiesOf(agent) \cap query.capabilities)

\* a matching rule that takes an empty capability list for "any"
QueryMatchesEmptyAll(agent, query) ==
    /\ query.capabilities = {} \/ Intersecting(agent, query) > 0
    /\ query.environmentType = "" \/ agent.EnvironmentType = query.environmentType

QueryMatches(agent, query) ==
    /\ Intersecting(agent, query) > 0
    /\ query.environmentType = "" \/ agent.EnvironmentType = query.environmentType

\* agent ids in ascending order, for the last tie-break
IdRank(id) == IF id = "worker-1" THEN 1 ELSE 2

\* an ordering that puts the recency of the heartbeat first
RankedByRecency(a, b, query) ==
    \/ a.LastHeartbeat > b.LastHeartbeat
    \/ /\ a.LastHeartbeat = b.LastHeartbeat
       /\ Intersecting(a, query) > Intersecting(b, query)
    \/ /\ a.LastHeartbeat = b.LastHeartbeat
       /\ Intersecting(a, query) = Intersecting(b, query)
       /\ IdRank(a.ID) < IdRank(b.ID)

\* a is ranked before b: more intersecting capabilities, then the more
\* recent heartbeat, then the smaller id
RankedBefore(a, b, query) ==
    \/ Intersecting(a, query) > Intersecting(b, query)
    \/ /\ Intersecting(a, query) = Intersecting(b, query)
       /\ a.LastHeartbeat > b.LastHeartbeat
    \/ /\ Intersecting(a, query) = Intersecting(b, query)
       /\ a.LastHeartbeat = b.LastHeartbeat
       /\ IdRank(a.ID) < IdRank(b.ID)

RECURSIVE Ranked(_, _, _)
Ranked(registry, ids, query) ==
    IF ids = {} THEN <<>>
    ELSE LET first == CHOOSE a \in ids :
                         \A b \in ids \ {a} :
                            RankedBefore(registry.agents[a], registry.agents[b], query)
         IN  <<first>> \o Ranked(registry, ids \ {first}, query)

DiscoveredTool(registry, id) ==
    LET agent == registry.agents[id]
    IN  [agentId         |-> id,
         mcpEndpoint     |-> agent.MCPEndpoint,
         capabilities    |-> CapabilitiesOf(agent),
         environmentType |-> agent.EnvironmentType,
         mcpTools        |-> { p[1] : p \in { q \in registry.index : q[2] = id } }]

\* discover(query): the matching records, ranked, cut to maxResults
RegistryDiscoverTools(registry, query) ==
    LET matching == { id \in DOMAIN registry.agents :
                         QueryMatches(registry.agents[id], query) }
        ranked   == Ranked(registry, matching, query)
        cut      == IF query.maxResults > 0 /\ Len(ranked) > query.maxResults
                    THEN SubSeq(ranked, 1, query.maxResults)
                    ELSE ranked
    IN  [tools     |-> [i \in 1..Len(cut) |-> DiscoveredTool(registry, cut[i])],
         matched   |-> Len(ranked)]

(***************************************************************************)
(* Envelope bodies on the wire and their decoding (json.Unmarshal into the *)
(* handler's struct: a property the struct has no field for is ignored, a  *)
(* field the object lacks keeps its zero value, a property of the wrong    *)
(* JSON type is an error).                                                 *)
(***************************************************************************)
Mistyped == RawBody([kind |-> "mistyped"])

Unmarshals(body) == body.valid /\ body.val.kind # "mistyped"

Field(val, name, zero) == IF name \in DOMAIN val THEN val[name] ELSE zero

RegisterAgentBody(capabilities, mcpEndpoint, bodyDefinition, environmentType) ==
    RawBody([kind |-> "object", capabilities |-> capabilities,
             mcpEndpoint |-> mcpEndpoint, bodyDefinition |-> bodyDefinition,
             environmentType |-> environmentType])

RevokeBody(target) == RawBody([kind |-> "object", target |-> target])

ToolQuery(capabilities, environmentType, maxResults) ==
    [capabilities |-> capabilities, environmentType |-> environmentType,
     maxResults |-> maxResults]

DiscoverToolsBody(query) == RawBody([kind |-> "object", query |-> query])

EmbodimentUpdateBody(environmentType, bodyDefinition, mcpEndpoint) ==
    RawBody([kind |-> "object", environmentType |-> environmentType,
             bodyDefinition |-> bodyDefinition, mcpEndpoint |-> mcpEndpoint])

EmptyObject == RawBody([kind |-> "object"])


(***************************************************************************)
(* HTTP requests.  wire says what the request body holds: bytes that       *)
(* cannot be read, bytes that are no envelope, or the envelope env.  The   *)
(* capability token travels with the request, outside the envelope.        *)
(***************************************************************************)
SignedBy(env, signer) ==
    IF signer = "unsigned" THEN env ELSE Sign(env, signer).env

Request(type, body, agent, nonce, ts, signer, token) ==
    [method |-> "POST", path |-> "/", wire |-> "envelope",
     env    |-> SignedBy(Unsigned(type, agent, ts, nonce, body), signer),
     token  |-> token]

NoEnvelope == Unsigned("none", "none", 0, "none", EmptyObject)

NoToken == Token({}, "", <<>>, 0, "")

BareRequest(method, path, wire) ==
    [method |-> method, path |-> path, wire |-> wire,
     env |-> NoEnvelope, token |-> NoToken]

BareRequests ==
    { BareRequest("GET", "/health", "envelope"),
      BareRequest("GET", "/", "envelope"),
      BareRequest("POST", "/", "unreadable"),
      BareRequest("POST", "/", "malformed") }

\* protocol.ParseEnvelope: the bytes decode into a generic envelope or not
ParseEnvelope(req) ==
    [ok |-> req.wire = "envelope", env |-> req.env]

(***************************************************************************)
(* The broker (main.go).  Agent.RegisteredAt is written by                 *)
(* handleRegisterAgent and read nowhere; the model leaves it out.          *)
(***************************************************************************)
Agent(id, capabilities, endpoint) ==
    [ID |-> id, Capabilities |-> capabilities, Endpoint |-> endpoint]

MCPAgent(id, endpoint, bodyDefinition, environmentType, heartbeat, tools) ==
    [ID |-> id, MCPEndpoint |-> endpoint, BodyDefinition |-> bodyDefinition,
     EnvironmentType |-> environmentType, LastHeartbeat |-> heartbeat,
     Tools |-> tools]

mcpRegistry == [agents |-> mcpAgents, index |-> toolIndex]

NoResponse ==
    [handler |-> "none", status |-> 0, reply |-> "none",
     type |-> "none", agent |-> "none", nonce |-> "none", skew |-> 0,
     sigOk |-> FALSE, authz |-> "none", jti |-> "", replay |-> FALSE,
     body |-> EmptyObject,
     tools |-> <<>>, totalResults |-> 0, hasMore |-> FALSE]

\* NewBroker (main.go:116-121)
InitBrokerVars ==
    /\ agents = EmptyMap
    /\ mcpAgents = EmptyMap
    /\ toolIndex = {}
    /\ now = 0
    /\ seen = {}
    /\ last = NoResponse

\* what the broker answered, and what the request was: its envelope's headers
\* and body, whether its signature verifies under the sender's key, what
\* authorize says of its token, how far its timestamp is from the clock,
\* whether its (agent, nonce) was handled before
Answer(req, handler, status, reply) ==
    [NoResponse EXCEPT
        !.handler = handler, !.status = status, !.reply = reply,
        !.type = req.env.type, !.agent = req.env.agent, !.nonce = req.env.nonce,
        !.body = req.env.body,
        !.skew = req.env.ts - now,
        !.sigOk = (req.env.agent \in AgentIds
                     /\ Verify(req.env, PubKeyOf(req.env.agent)).err = "nil"),
        !.authz = authorize(req.token, req.env.type, now, {}),
        !.jti = IF "jti" \in req.token.has THEN req.token.jti ELSE "",
        !.replay = (<<req.env.agent, req.env.nonce>> \in seen)]

Handled(req) == seen' = seen \cup {<<req.env.agent, req.env.nonce>>}

\* main.go:126-150: the health check, the method check, reading and parsing
RejectBeforeDispatch(req) ==
    /\ \/ /\ req.path = "/health" /\ req.method = "GET"
          /\ last' = Answer(req, "none", 200, "OK")
       \/ /\ ~(req.path = "/health" /\ req.method = "GET")
          /\ req.method # "POST"
          /\ last' = Answer(req, "none", 405, "Method not allowed")
       \/ /\ req.method = "POST"
          /\ req.wire = "unreadable"
          /\ last' = Answer(req, "none", 400, "Failed to read body")
       \/ /\ req.method = "POST"
          /\ req.wire = "malformed"
          /\ ~ParseEnvelope(req).ok
          /\ last' = Answer(req, "none", 400, "Invalid envelope")
    /\ UNCHANGED <<agents, mcpAgents, toolIndex, now, seen>>

\* main.go:176-178
RejectUnknownType(env, req) ==
    /\ last' = Answer(req, "none", 400, "Unknown envelope type")
    /\ UNCHANGED <<agents, mcpAgents, toolIndex, now, seen>>

\* a registration that writes the agent map before it has decoded the body
handleRegisterAgentEager(env, req) ==
    /\ Handled(req)
    /\ IF ~Unmarshals(env.body)
       THEN /\ agents' = MapPut(agents, env.agent, Agent(env.agent, {}, ""))
            /\ last' = Answer(req, "handleRegisterAgent", 400, "Invalid body")
            /\ UNCHANGED <<mcpAgents, toolIndex, now>>
       ELSE /\ agents' = MapPut(agents, env.agent,
                                Agent(env.agent,
                                      Field(env.body.val, "capabilities", {}),
                                      Field(env.body.val, "mcpEndpoint", "")))
            /\ last' = Answer(req, "handleRegisterAgent", 200, "registered")
            /\ UNCHANGED <<mcpAgents, toolIndex, now>>

\* main.go:183-232
handleRegisterAgent(env, req) ==
    /\ Handled(req)
    /\ IF ~Unmarshals(env.body)
       THEN /\ last' = Answer(req, "handleRegisterAgent", 400, "Invalid body")
            /\ UNCHANGED <<agents, mcpAgents, toolIndex, now>>
       ELSE LET body     == env.body.val
                endpoint == Field(body, "mcpEndpoint", "")
                bodyDef  == Field(body, "bodyDefinition", NilBodyDefinition)
                mcpAgent == MCPAgent(env.agent, endpoint, bodyDef,
                                     Field(body, "environmentType", ""), now,
                                     IF bodyDef.isNil THEN {} ELSE bodyDef.mcpTools)
                reg      == RegistryRegisterAgent(mcpRegistry, env.agent, mcpAgent)
            IN  /\ agents' = MapPut(agents, env.agent,
                                    Agent(env.agent, Field(body, "capabilities", {}),
                                          endpoint))
                /\ IF endpoint # ""
                   THEN /\ mcpAgents' = reg.agents
                        /\ toolIndex' = reg.index
                   ELSE UNCHANGED <<mcpAgents, toolIndex>>
                /\ last' = Answer(req, "handleRegisterAgent", 200, "registered")
                /\ UNCHANGED now

\* main.go:235-349: handleRegisterBroker, handleEmitEvent,
\* handleRenderInstruction, handleToolCall, handleToolResult
handleAcknowledge(env, req, handler, reply) ==
    /\ Handled(req)
    /\ IF ~Unmarshals(env.body)
       THEN last' = Answer(req, handler, 400, "Invalid body")
       ELSE last' = Answer(req, handler, 200, reply)
    /\ UNCHANGED <<agents, mcpAgents, toolIndex, now>>

\* main.go:352-376
handleRevoke(env, req) ==
    /\ Handled(req)
    /\ IF ~Unmarshals(env.body)
       THEN /\ last' = Answer(req, "handleRevoke", 400, "Invalid body")
            /\ UNCHANGED <<agents, mcpAgents, toolIndex, now>>
       ELSE LET target == Field(env.body.val, "target", "")
            IN  /\ agents' = MapDelete(agents, target)
                /\ last' = Answer(req, "handleRevoke", 200, "revoked")
                /\ UNCHANGED <<mcpAgents, toolIndex, now>>

\* main.go:379-406
handleDiscoverTools(env, req) ==
    /\ Handled(req)
    /\ IF ~Unmarshals(env.body)
       THEN last' = Answer(req, "handleDiscoverTools", 400, "Invalid discovery request")
       ELSE LET query == Field(env.body.val, "query", ToolQuery({}, "", 0))
                found == RegistryDiscoverTools(mcpRegistry, query)
            IN  last' = [Answer(req, "handleDiscoverTools", 200, "success")
                           EXCEPT !.tools = found.tools,
                                  !.totalResults = Len(found.tools),
                                  !.hasMore = FALSE]
    /\ UNCHANGED <<agents, mcpAgents, toolIndex, now>>

\* main.go:409-439
handleEmbodimentUpdate(env, req) ==
    /\ Handled(req)
    /\ IF ~Unmarshals(env.body)
       THEN /\ last' = Answer(req, "handleEmbodimentUpdate", 400, "Invalid embodiment update")
            /\ UNCHANGED <<agents, mcpAgents, toolIndex, now>>
       ELSE LET body    == env.body.val
                bodyDef == Field(body, "bodyDefinition", BodyDefinition({}, {}))
                agent   == MCPAgent(env.agent, Field(body, "mcpEndpoint", ""), bodyDef,
                                    Field(body, "environmentType", ""), now,
                                    bodyDef.mcpTools)
                reg     == RegistryRegisterAgent(mcpRegistry, env.agent, agent)
            IN  /\ IF RegistryGetAgent(mcpRegistry, env.agent)
                   THEN /\ mcpAgents' = reg.agents
                        /\ toolIndex' = reg.index
                   ELSE UNCHANGED <<mcpAgents, toolIndex>>
                /\ last' = Answer(req, "handleEmbodimentUpdate", 200, "updated")
                /\ UNCHANGED <<agents, now>>

\* the types ServeHTTP has a case for (main.go:156-175)
Dispatchable ==
    { EnvelopeRegisterAgent, EnvelopeRegisterBroker, EnvelopeEmitEvent,
      EnvelopeRenderInstruction, EnvelopeToolCall, EnvelopeToolResult,
      EnvelopeRevoke, EnvelopeDiscoverTools, EnvelopeEmbodimentUpdate }

\* main.go:124-180
ServeHTTP(req) ==
    \/ RejectBeforeDispatch(req)
    \/ /\ req.method = "POST" /\ ParseEnvelope(req).ok
       /\ LET env == ParseEnvelope(req).env
          IN  \/ env.type = EnvelopeRegisterAgent /\ handleRegisterAgent(env, req)
              \/ /\ env.type = EnvelopeRegisterBroker
                 /\ handleAcknowledge(env, req, "handleRegisterBroker", "registered")
              \/ /\ env.type = EnvelopeEmitEvent
                 /\ handleAcknowledge(env, req, "handleEmitEvent", "emitted")
              \/ /\ env.type = EnvelopeRenderInstruction
                 /\ handleAcknowledge(env, req, "handleRenderInstruction", "rendered")
              \/ /\ env.type = EnvelopeToolCall
                 /\ handleAcknowledge(env, req, "handleToolCall", "processing")
              \/ /\ env.type = EnvelopeToolResult
                 /\ handleAcknowledge(env, req, "handleToolResult", "received")
              \/ env.type = EnvelopeRevoke /\ handleRevoke(env, req)
              \/ env.type = EnvelopeDiscoverTools /\ handleDiscoverTools(env, req)
              \/ env.type = EnvelopeEmbodimentUpdate /\ handleEmbodimentUpdate(env, req)
              \/ env.type \notin Dispatchable /\ RejectUnknownType(env, req)

\* time passes
Tick ==
    /\ now < MaxTime
    /\ now' = now + 1
    /\ UNCHANGED <<agents, mcpAgents, toolIndex, seen, last>>


(***************************************************************************)
(* The requests the model sends                                            *)
(***************************************************************************)
AllPermissions ==
    << EnvelopeRegisterAgent, EnvelopeRegisterBroker, EnvelopeEmitEvent,
       EnvelopeRenderInstruction, EnvelopeToolCall, EnvelopeToolResult,
       EnvelopeRevoke, EnvelopeDiscoverTools, EnvelopeEmbodimentUpdate >>

\* tokens that do not expire within the model's time
FullToken ==
    Token(RequiredProperties, "scope:trusted", AllPermissions, MaxTime + 1, "")

DiscoverOnlyToken ==
    Token(RequiredProperties, "scope:local", <<EnvelopeDiscoverTools>>,
          MaxTime + 1, "")

\* a token that carries a jti
RevocableToken ==
    Token(SchemaProperties, "scope:trusted", AllPermissions, MaxTime + 1, "jti-1")

ExpiredToken ==
    Token(RequiredProperties, "scope:trusted", AllPermissions, 0, "")

LocalCoder ==
    RegisterAgentBody({"code-exec"}, "e1",
                      BodyDefinition({"code-exec"}, {"t1"}), "local")

CloudVision ==
    RegisterAgentBody({"code-exec", "vision"}, "e2",
                      BodyDefinition({"code-exec", "vision"}, {"t2"}), "cloud")

NoEndpoint == RegisterAgentBody({"vision"}, "", NilBodyDefinition, "")

NoTools == RegisterAgentBody({"code-exec"}, "e1", NilBodyDefinition, "local")

MovedToCloud ==
    EmbodimentUpdateBody("cloud",
                         BodyDefinition({"code-exec", "vision"}, {"t2"}), "e2")

Queries ==
    { ToolQuery({"code-exec", "vision"}, "", 0),
      ToolQuery({"code-exec"}, "", 1),
      ToolQuery({"vision"}, "cloud", 0),
      ToolQuery({}, "", 0) }

RevokeTargets == AgentIds \cup {"jti-1"}

AckTypes ==
    { EnvelopeRegisterBroker, EnvelopeEmitEvent, EnvelopeRenderInstruction,
      EnvelopeToolCall, EnvelopeToolResult }

\* <<type, body>> pairs: every type with the bodies its handler tells apart
TypedBodies ==
    { <<EnvelopeRegisterAgent, b>> :
          b \in {LocalCoder, CloudVision, NoEndpoint, NoTools, Mistyped} }
      \cup { <<EnvelopeRevoke, RevokeBody(t)>> : t \in RevokeTargets }
      \cup { <<EnvelopeRevoke, Mistyped>> }
      \cup { <<EnvelopeDiscoverTools, DiscoverToolsBody(q)>> : q \in Queries }
      \cup { <<EnvelopeDiscoverTools, Mistyped>> }
      \cup { <<EnvelopeEmbodimentUpdate, b>> : b \in {MovedToCloud, Mistyped} }
      \cup { <<t, b>> : t \in AckTypes, b \in {EmptyObject, Mistyped} }
      \cup { <<EnvelopeToolsDiscovered, EmptyObject>>, <<"bogus", EmptyObject>> }

\* one body per type
PlainBodies ==
    { <<EnvelopeRegisterAgent, LocalCoder>>,
      <<EnvelopeRevoke, RevokeBody("worker-1")>>,
      <<EnvelopeRevoke, RevokeBody("jti-1")>>,
      <<EnvelopeDiscoverTools, DiscoverToolsBody(ToolQuery({"code-exec"}, "", 0))>>,
      <<EnvelopeEmbodimentUpdate, MovedToCloud>> }
      \cup { <<t, EmptyObject>> : t \in AckTypes }
      \cup { <<EnvelopeToolsDiscovered, EmptyObject>>, <<"bogus", EmptyObject>> }

\* one body per type, sent by the second agent
OtherBodies ==
    { <<EnvelopeRegisterAgent, CloudVision>>,
      <<EnvelopeRevoke, RevokeBody("worker-1")>>,
      <<EnvelopeDiscoverTools, DiscoverToolsBody(ToolQuery({"code-exec"}, "", 0))>>,
      <<EnvelopeEmbodimentUpdate, MovedToCloud>>,
      <<EnvelopeEmitEvent, EmptyObject>> }

\* a well-behaved client's request: signed with the sender's key, a token
\* that grants everything, the current time
GoodRequest(tb, a) ==
    Request(tb[1], tb[2], a, "n1", now, PrivKeyOf(a), FullToken)

\* what a request may have wrong, one thing at a time: its signature, its
\* token, its timestamp
Trusted == [signer |-> "k-worker-1", token |-> FullToken, skew |-> 0]

\* the operations sent with every credential; the others are sent trusted
Guarded == {EnvelopeRegisterAgent, EnvelopeRevoke, EnvelopeDiscoverTools}

Credentials ==
    { Trusted,
      [signer |-> "unsigned", token |-> FullToken, skew |-> 0],
      [signer |-> "k-mallory", token |-> FullToken, skew |-> 0],
      [signer |-> "k-worker-1", token |-> DiscoverOnlyToken, skew |-> 0],
      [signer |-> "k-worker-1", token |-> NoToken, skew |-> 0],
      [signer |-> "k-worker-1", token |-> ExpiredToken, skew |-> 0],
      [signer |-> "k-worker-1", token |-> RevocableToken, skew |-> 0],
      [signer |-> "k-worker-1", token |-> FullToken, skew |-> 0 - MaxTime],
      [signer |-> "k-worker-1", token |-> FullToken, skew |-> MaxTime] }

AnyRequest(tb, n, c) ==
    Request(tb[1], tb[2], "worker-1", n, now + c.skew, c.signer, c.token)

(***************************************************************************)
(* Specifications                                                          *)
(***************************************************************************)
IdleEnvVars ==
    /\ e = NoEnvelope
    /\ signedBy = "none"
    /\ envOp = NoOp

\* a goroutine that serves no request
NoRecord == MCPAgent("none", "", NilBodyDefinition, "", 0, {})

NoRequest == BareRequest("none", "none", "none")

IdleGoroutine ==
    [pc |-> "idle", req |-> NoRequest, rec |-> NoRecord, aliased |-> FALSE,
     overtaken |-> FALSE]

IdleConcVars ==
    /\ upd = IdleGoroutine
    /\ rg = IdleGoroutine
    /\ committed = {}

Goroutines == {1, 2}

\* a goroutine that is in no call of Verify
IdleVerifier ==
    [pc |-> "idle", key |-> "none", signature |-> NoBytes, sig |-> NoSig,
     data |-> [junk |-> FALSE], err |-> "none"]

\* a goroutine that serves no request and has written no response
IdleServer == [pc |-> "idle", req |-> NoRequest, responses |-> 0, status |-> 0]

IdleAuxVars ==
    /\ made = <<>>
    /\ ver = [g \in Goroutines |-> IdleVerifier]
    /\ srv = [g \in Goroutines |-> IdleServer]
    /\ mu = "free"

IdleAuthVars ==
    /\ tok = NoToken
    /\ op = EnvelopeDiscoverTools
    /\ authNow = 0
    /\ revokedSet = {}
    /\ decision = "none"

Init == InitBrokerVars /\ IdleEnvVars /\ IdleAuthVars /\ IdleConcVars /\ IdleAuxVars

Next ==
    /\ \/ \E tb \in TypedBodies : \E req \in {GoodRequest(tb, "worker-1")} :
             ServeHTTP(req)
       \/ \E tb \in OtherBodies : \E req \in {GoodRequest(tb, "worker-2")} :
             ServeHTTP(req)
       \/ \E req \in BareRequests : ServeHTTP(req)
       \/ Tick
    /\ UNCHANGED <<envVars, authVars, concVars, auxVars>>

Spec == Init /\ [][Next]_vars

NextSec ==
    /\ \/ \E tb \in PlainBodies, n \in Nonces, c \in Credentials :
             /\ tb[1] \in Guarded \/ c = Trusted
             /\ \E req \in {AnyRequest(tb, n, c)} : ServeHTTP(req)
       \/ \E req \in BareRequests : ServeHTTP(req)
       \/ Tick
    /\ UNCHANGED <<envVars, authVars, concVars, auxVars>>

SpecSec == Init /\ [][NextSec]_vars

InitEnv ==
    InitEnvVars /\ IdleAuthVars /\ InitBrokerVars /\ IdleConcVars /\ IdleAuxVars

SpecEnv == InitEnv /\ [][NextEnv]_vars

InitAuth ==
    InitAuthVars /\ IdleEnvVars /\ InitBrokerVars /\ IdleConcVars /\ IdleAuxVars

SpecAuth == InitAuth /\ [][NextAuth]_vars


(***************************************************************************)
(* Handlers running concurrently (net/http serves every request on its own *)
(* goroutine).  handleEmbodimentUpdate and handleRegisterAgent are cut     *)
(* into the steps between which another goroutine may run; the registry's  *)
(* own operations and a whole handleDiscoverTools are one step each.       *)
(* GetAgent hands out the record the registry holds: the handler's writes  *)
(* to it (main.go:420-424) are writes to the registry's record, made       *)
(* outside the registry's operations, and "Re-register to update tool      *)
(* index" (main.go:426) follows them.  rec is the record the goroutine     *)
(* holds; aliased says whether the registry's map still points to it,      *)
(* overtaken whether a registration replaced it while the goroutine held it.*)
(***************************************************************************)
\* the discovery entry of a whole record
WholeEntry(record) ==
    [agentId         |-> record.ID,
     mcpEndpoint     |-> record.MCPEndpoint,
     capabilities    |-> CapabilitiesOf(record),
     environmentType |-> record.EnvironmentType,
     mcpTools        |-> record.Tools]

\* the record an embodimentUpdate body makes of the record it finds
UpdatedRecord(record, body) ==
    LET bodyDef == Field(body, "bodyDefinition", BodyDefinition({}, {}))
    IN  [record EXCEPT !.EnvironmentType = Field(body, "environmentType", ""),
                       !.BodyDefinition = bodyDef,
                       !.MCPEndpoint = Field(body, "mcpEndpoint", ""),
                       !.Tools = bodyDef.mcpTools]

\* main.go:409-414
UpdStart(req) ==
    /\ upd.pc = "idle"
    /\ IF ~Unmarshals(req.env.body)
       THEN /\ last' = Answer(req, "handleEmbodimentUpdate", 400,
                              "Invalid embodiment update")
            /\ Handled(req)
            /\ UNCHANGED upd
       ELSE /\ upd' = [upd EXCEPT !.pc = "GetAgent", !.req = req]
            /\ UNCHANGED <<last, seen>>
    /\ UNCHANGED <<agents, mcpAgents, toolIndex, now, rg, committed>>

\* main.go:419
UpdGetAgent ==
    /\ upd.pc = "GetAgent"
    /\ IF RegistryGetAgent(mcpRegistry, upd.req.env.agent)
       THEN LET record == mcpAgents[upd.req.env.agent]
            IN  /\ upd' = [upd EXCEPT !.pc = "EnvironmentType", !.rec = record,
                                      !.aliased = TRUE]
                /\ committed' = committed \cup
                      {WholeEntry(UpdatedRecord(record, upd.req.env.body.val))}
       ELSE /\ upd' = [upd EXCEPT !.pc = "respond"]
            /\ UNCHANGED committed
    /\ UNCHANGED <<agents, mcpAgents, toolIndex, now, seen, last, rg>>

\* main.go:420
UpdWriteEnvironmentType ==
    /\ upd.pc = "EnvironmentType"
    /\ LET record == [upd.rec EXCEPT !.EnvironmentType =
                         Field(upd.req.env.body.val, "environmentType", "")]
       IN  /\ upd' = [upd EXCEPT !.rec = record, !.pc = "BodyDefinition"]
           /\ IF upd.aliased
              THEN mcpAgents' = [mcpAgents EXCEPT ![upd.req.env.agent] = record]
              ELSE UNCHANGED mcpAgents
    /\ UNCHANGED <<agents, toolIndex, now, seen, last, rg, committed>>

\* main.go:421
UpdWriteBodyDefinition ==
    /\ upd.pc = "BodyDefinition"
    /\ LET record == [upd.rec EXCEPT !.BodyDefinition =
                         Field(upd.req.env.body.val, "bodyDefinition",
                               BodyDefinition({}, {}))]
       IN  /\ upd' = [upd EXCEPT !.rec = record, !.pc = "MCPEndpoint"]
           /\ IF upd.aliased
              THEN mcpAgents' = [mcpAgents EXCEPT ![upd.req.env.agent] = record]
              ELSE UNCHANGED mcpAgents
    /\ UNCHANGED <<agents, toolIndex, now, seen, last, rg, committed>>

\* an update that leaves the endpoint of the record as it is
UpdLeaveMCPEndpoint ==
    /\ upd.pc = "MCPEndpoint"
    /\ upd' = [upd EXCEPT !.pc = "Tools"]
    /\ UNCHANGED <<agents, mcpAgents, toolIndex, now, seen, last, rg, committed>>

\* main.go:422
UpdWriteMCPEndpoint ==
    /\ upd.pc = "MCPEndpoint"
    /\ LET record == [upd.rec EXCEPT !.MCPEndpoint =
                         Field(upd.req.env.body.val, "mcpEndpoint", "")]
       IN  /\ upd' = [upd EXCEPT !.rec = record, !.pc = "Tools"]
           /\ IF upd.aliased
              THEN mcpAgents' = [mcpAgents EXCEPT ![upd.req.env.agent] = record]
              ELSE UNCHANGED mcpAgents
    /\ UNCHANGED <<agents, toolIndex, now, seen, last, rg, committed>>

\* main.go:423
UpdWriteTools ==
    /\ upd.pc = "Tools"
    /\ LET record == [upd.rec EXCEPT !.Tools =
                         Field(upd.req.env.body.val, "bodyDefinition",
                               BodyDefinition({}, {})).mcpTools]
       IN  /\ upd' = [upd EXCEPT !.rec = record, !.pc = "LastHeartbeat"]
           /\ IF upd.aliased
              THEN mcpAgents' = [mcpAgents EXCEPT ![upd.req.env.agent] = record]
              ELSE UNCHANGED mcpAgents
    /\ UNCHANGED <<agents, toolIndex, now, seen, last, rg, committed>>

\* main.go:424
UpdWriteLastHeartbeat ==
    /\ upd.pc = "LastHeartbeat"
    /\ LET record == [upd.rec EXCEPT !.LastHeartbeat = now]
       IN  /\ upd' = [upd EXCEPT !.rec = record, !.pc = "RegisterAgent"]
           /\ IF upd.aliased
              THEN mcpAgents' = [mcpAgents EXCEPT ![upd.req.env.agent] = record]
              ELSE UNCHANGED mcpAgents
    /\ UNCHANGED <<agents, toolIndex, now, seen, last, rg, committed>>

\* main.go:427
UpdRegisterAgent ==
    /\ upd.pc = "RegisterAgent"
    /\ LET reg == RegistryRegisterAgent(mcpRegistry, upd.req.env.agent, upd.rec)
       IN  /\ mcpAgents' = reg.agents
           /\ toolIndex' = reg.index
    /\ upd' = [upd EXCEPT !.pc = "respond", !.aliased = TRUE]
    /\ UNCHANGED <<agents, now, seen, last, rg, committed>>

\* main.go:432-438
UpdRespond ==
    /\ upd.pc = "respond"
    /\ last' = Answer(upd.req, "handleEmbodimentUpdate", 200, "updated")
    /\ Handled(upd.req)
    /\ upd' = IdleGoroutine
    /\ UNCHANGED <<agents, mcpAgents, toolIndex, now, rg, committed>>

\* the MCPAgent a registerAgent body makes (main.go:203-214)
RegisteredRecord(agent, body, time) ==
    LET bodyDef == Field(body, "bodyDefinition", NilBodyDefinition)
    IN  MCPAgent(agent, Field(body, "mcpEndpoint", ""), bodyDef,
                 Field(body, "environmentType", ""), time,
                 IF bodyDef.isNil THEN {} ELSE bodyDef.mcpTools)

\* main.go:183-189
RegStart(req) ==
    /\ rg.pc = "idle"
    /\ IF ~Unmarshals(req.env.body)
       THEN /\ last' = Answer(req, "handleRegisterAgent", 400, "Invalid body")
            /\ Handled(req)
            /\ UNCHANGED <<rg, committed>>
       ELSE /\ rg' = [rg EXCEPT !.pc = "agents", !.req = req]
            /\ committed' =
                  IF Field(req.env.body.val, "mcpEndpoint", "") # ""
                  THEN committed \cup
                          {WholeEntry(RegisteredRecord(req.env.agent,
                                                       req.env.body.val, now))}
                  ELSE committed
            /\ UNCHANGED <<last, seen>>
    /\ UNCHANGED <<agents, mcpAgents, toolIndex, now, upd>>

\* main.go:192-199
RegWriteAgents ==
    /\ rg.pc = "agents"
    /\ LET body == rg.req.env.body.val
       IN  /\ agents' = MapPut(agents, rg.req.env.agent,
                               Agent(rg.req.env.agent,
                                     Field(body, "capabilities", {}),
                                     Field(body, "mcpEndpoint", "")))
           /\ rg' = [rg EXCEPT !.pc = IF Field(body, "mcpEndpoint", "") # ""
                                      THEN "RegisterAgent" ELSE "respond"]
    /\ UNCHANGED <<mcpAgents, toolIndex, now, seen, last, upd, committed>>

\* main.go:202-221
RegRegisterAgent ==
    /\ rg.pc = "RegisterAgent"
    /\ LET record == RegisteredRecord(rg.req.env.agent, rg.req.env.body.val, now)
           reg    == RegistryRegisterAgent(mcpRegistry, rg.req.env.agent, record)
       IN  /\ mcpAgents' = reg.agents
           /\ toolIndex' = reg.index
    /\ rg' = [rg EXCEPT !.pc = "respond"]
    /\ upd' = IF upd.req.env.agent = rg.req.env.agent
              THEN [upd EXCEPT !.aliased = FALSE,
                               !.overtaken = (upd.pc \notin {"GetAgent", "respond"})]
              ELSE upd
    /\ UNCHANGED <<agents, now, seen, last, committed>>

\* main.go:223-231
RegRespond ==
    /\ rg.pc = "respond"
    /\ last' = Answer(rg.req, "handleRegisterAgent", 200, "registered")
    /\ Handled(rg.req)
    /\ rg' = IdleGoroutine
    /\ UNCHANGED <<agents, mcpAgents, toolIndex, now, upd, committed>>

\* handleRevoke holds b.mu for its one write: a single step
Revoke(req) ==
    /\ handleRevoke(req.env, req)
    /\ UNCHANGED concVars

\* a third goroutine serves a discoverTools request
Discover(req) ==
    /\ handleDiscoverTools(req.env, req)
    /\ UNCHANGED concVars

ConcRegistrations ==
    { <<LocalCoder, "worker-1">>, <<Mistyped, "worker-1">>,
      <<CloudVision, "worker-2">> }

ConcDiscoveries ==
    { DiscoverToolsBody(ToolQuery({"code-exec", "vision"}, "", 0)),
      DiscoverToolsBody(ToolQuery({"vision"}, "cloud", 0)),
      Mistyped }

NextConc ==
    /\ \/ \E b \in {MovedToCloud, Mistyped} :
             \E req \in {GoodRequest(<<EnvelopeEmbodimentUpdate, b>>, "worker-1")} :
                UpdStart(req)
       \/ UpdGetAgent
       \/ UpdWriteEnvironmentType
       \/ UpdWriteBodyDefinition
       \/ UpdWriteMCPEndpoint
       \/ UpdWriteTools
       \/ UpdWriteLastHeartbeat
       \/ UpdRegisterAgent
       \/ UpdRespond
       \/ \E r \in ConcRegistrations :
             \E req \in {GoodRequest(<<EnvelopeRegisterAgent, r[1]>>, r[2])} :
                RegStart(req)
       \/ RegWriteAgents
       \/ RegRegisterAgent
       \/ RegRespond
       \/ \E req \in {GoodRequest(<<EnvelopeRevoke, RevokeBody("worker-1")>>,
                                  "worker-2")} :
             Revoke(req)
       \/ \E b \in ConcDiscoveries :
             \E req \in {GoodRequest(<<EnvelopeDiscoverTools, b>>, "worker-2")} :
                Discover(req)
    /\ UNCHANGED <<envVars, authVars, auxVars>>

SpecConc == Init /\ [][NextConc]_vars

(***************************************************************************)
(* NewEnvelope and generateNonce (envelopes.go:347-363).  The nonce is     *)
(* made of two readings of the clock, the first in nanoseconds, the second *)
(* in seconds; the timestamp is a reading before them.  The clock does not *)
(* run backwards; it need not have advanced between two readings.          *)
(***************************************************************************)
generateNonce(nanos, later) == [nano |-> nanos, sec |-> later \div TicksPerSecond]

NewEnvelope(envType, agent, t1, t2, t3) ==
    Unsigned(envType, agent, t1, generateNonce(t2, t3), RawBody([kind |-> "null"]))

MakeEnvelope ==
    /\ Len(made) < MaxMade
    /\ \E envType \in EnvTypesUsed, agent \in AgentIds :
          \E t1 \in now..MaxTime : \E t2 \in t1..MaxTime : \E t3 \in t2..MaxTime :
             /\ made' = Append(made, NewEnvelope(envType, agent, t1, t2, t3))
             /\ now' = t3
    /\ UNCHANGED <<agents, mcpAgents, toolIndex, seen, last>>

NextNonce ==
    /\ \/ MakeEnvelope
       \/ Tick /\ UNCHANGED made
    /\ UNCHANGED <<envVars, authVars, concVars, ver, srv, mu>>

SpecNonce == Init /\ [][NextNonce]_vars


(***************************************************************************)
(* Envelope.Verify called by several goroutines on one envelope            *)
(* (envelopes.go:317-345).  Verify reads e.Sig at lines 318, 323 and 329,  *)
(* writes it at line 330 and in the deferred function, and reads the whole *)
(* envelope at line 334, all without a lock: each is a step of its own.    *)
(* signature, sig and data are the call's local variables.                 *)
(***************************************************************************)
VerifierKeys == {"k-worker-1", "k-mallory"}

\* line 318
VerCheck(g, key) ==
    /\ ver[g].pc = "idle"
    /\ ver' = [ver EXCEPT ![g] =
                 IF e.sig = NoSig
                 THEN [@ EXCEPT !.pc = "done", !.key = key,
                                !.err = "envelope has no signature"]
                 ELSE [@ EXCEPT !.pc = "decode", !.key = key]]
    /\ UNCHANGED e

\* lines 323-326
VerDecode(g) ==
    /\ ver[g].pc = "decode"
    /\ LET dec == Base64Decode(e.sig)
       IN  ver' = [ver EXCEPT ![g] =
                     IF ~dec.ok
                     THEN [@ EXCEPT !.pc = "done", !.err = "invalid signature encoding"]
                     ELSE [@ EXCEPT !.pc = "save", !.signature = dec.bytes]]
    /\ UNCHANGED e

\* line 329
VerSave(g) ==
    /\ ver[g].pc = "save"
    /\ ver' = [ver EXCEPT ![g].pc = "clear", ![g].sig = e.sig]
    /\ UNCHANGED e

\* line 330
VerClear(g) ==
    /\ ver[g].pc = "clear"
    /\ e' = [e EXCEPT !.sig = NoSig]
    /\ ver' = [ver EXCEPT ![g].pc = "marshal"]

\* lines 334-337
VerMarshal(g) ==
    /\ ver[g].pc = "marshal"
    /\ LET m == Marshal(e)
       IN  ver' = [ver EXCEPT ![g] =
                     IF ~m.ok
                     THEN [@ EXCEPT !.pc = "restore", !.err = "marshal"]
                     ELSE [@ EXCEPT !.pc = "compare", !.data = m.data]]
    /\ UNCHANGED e

\* lines 340-344
VerCompare(g) ==
    /\ ver[g].pc = "compare"
    /\ ver' = [ver EXCEPT ![g].pc = "restore",
                          ![g].err =
                             IF Ed25519Verify(PubOf(ver[g].key), ver[g].data,
                                              ver[g].signature)
                             THEN "nil" ELSE "signature verification failed"]
    /\ UNCHANGED e

\* line 331, run as Verify returns
VerRestore(g) ==
    /\ ver[g].pc = "restore"
    /\ e' = [e EXCEPT !.sig = ver[g].sig]
    /\ ver' = [ver EXCEPT ![g].pc = "done"]

\* envelopes that worker-1's key has signed
InitVerify ==
    /\ \E type \in EnvTypesUsed, agent \in AgentIds, nonce \in Nonces,
          body \in {RawBody([kind |-> "object"]), Spaced(RawBody([kind |-> "object"]))} :
          e = Sign(Unsigned(type, agent, 0, nonce, body), "k-worker-1").env
    /\ signedBy = "k-worker-1"
    /\ envOp = NoOp
    /\ IdleAuthVars /\ InitBrokerVars /\ IdleConcVars /\ IdleAuxVars

NextVerify ==
    /\ \E g \in Goroutines :
          \/ \E key \in VerifierKeys : VerCheck(g, key)
          \/ VerDecode(g)
          \/ VerSave(g)
          \/ VerClear(g)
          \/ VerMarshal(g)
          \/ VerCompare(g)
          \/ VerRestore(g)
    /\ UNCHANGED <<signedBy, envOp, authVars, brokerVars, concVars, made, srv, mu>>

SpecVerify == InitVerify /\ [][NextVerify]_vars


(***************************************************************************)
(* Requests served by several goroutines, with Broker.mu (main.go:73).     *)
(* A goroutine takes a request through ServeHTTP up to the dispatch, the   *)
(* decoding of the body, the write under b.mu (Lock, write, Unlock), the   *)
(* registry's operation, and the response.  responses counts what the      *)
(* goroutine has written to its ResponseWriter for the request.            *)
(***************************************************************************)
\* a connection hands the goroutine a request
Receive(g, req) ==
    /\ srv[g].pc \in {"idle", "Responded"}
    /\ srv' = [srv EXCEPT ![g] = [pc |-> "Received", req |-> req,
                                  responses |-> 0, status |-> 0]]
    /\ UNCHANGED <<agents, mcpAgents, toolIndex, now, seen, last, mu>>

\* main.go:124-180, up to the call of the handler
Serve(g) ==
    /\ srv[g].pc = "Received"
    /\ LET req == srv[g].req
           status == IF req.path = "/health" /\ req.method = "GET" THEN 200
                     ELSE IF req.method # "POST" THEN 405
                     ELSE IF req.wire = "unreadable" THEN 400
                     ELSE IF ~ParseEnvelope(req).ok THEN 400
                     ELSE IF ParseEnvelope(req).env.type \notin Dispatchable THEN 400
                     ELSE 0
       IN  srv' = IF status # 0
                  THEN [srv EXCEPT ![g].pc = "Responded", ![g].responses = @ + 1,
                                   ![g].status = status]
                  ELSE [srv EXCEPT ![g].pc = "Dispatched"]
    /\ UNCHANGED <<agents, mcpAgents, toolIndex, now, seen, last, mu>>

\* the handler decodes the body (main.go:186, 241, 264, 288, 310, 334, 358,
\* 381, 411)
Decode(g) ==
    /\ srv[g].pc = "Dispatched"
    /\ LET env == srv[g].req.env
       IN  srv' = IF ~Unmarshals(env.body)
                  THEN [srv EXCEPT ![g].pc = "Responded", ![g].responses = @ + 1,
                                   ![g].status = 400]
                  ELSE [srv EXCEPT ![g].pc =
                          IF env.type \in {EnvelopeRegisterAgent, EnvelopeRevoke}
                          THEN "Lock"
                          ELSE IF env.type \in {EnvelopeDiscoverTools,
                                                EnvelopeEmbodimentUpdate}
                          THEN "Registry"
                          ELSE "Respond"]
    /\ UNCHANGED <<agents, mcpAgents, toolIndex, now, seen, last, mu>>

\* b.mu.Lock() (main.go:192, 363): waits until the lock is free
Lock(g) ==
    /\ srv[g].pc = "Lock"
    /\ mu = "free"
    /\ mu' = ToString(g)
    /\ srv' = [srv EXCEPT ![g].pc = "Write"]
    /\ UNCHANGED <<agents, mcpAgents, toolIndex, now, seen, last>>

\* main.go:193-198, 364
Write(g) ==
    /\ srv[g].pc = "Write"
    /\ LET env  == srv[g].req.env
           body == env.body.val
       IN  agents' = IF env.type = EnvelopeRegisterAgent
                     THEN MapPut(agents, env.agent,
                                 Agent(env.agent, Field(body, "capabilities", {}),
                                       Field(body, "mcpEndpoint", "")))
                     ELSE MapDelete(agents, Field(body, "target", ""))
    /\ srv' = [srv EXCEPT ![g].pc = "Unlock"]
    /\ UNCHANGED <<mcpAgents, toolIndex, now, seen, last, mu>>

\* a handler that goes on without b.mu.Unlock()
UnlockForgotten(g) ==
    /\ srv[g].pc = "Unlock"
    /\ srv' = [srv EXCEPT ![g].pc = "Respond"]
    /\ UNCHANGED <<agents, mcpAgents, toolIndex, now, seen, last, mu>>

\* b.mu.Unlock() (main.go:199, 365)
Unlock(g) ==
    /\ srv[g].pc = "Unlock"
    /\ mu' = "free"
    /\ LET env == srv[g].req.env
       IN  srv' = [srv EXCEPT ![g].pc =
                      IF /\ env.type = EnvelopeRegisterAgent
                         /\ Field(env.body.val, "mcpEndpoint", "") # ""
                      THEN "Registry" ELSE "Respond"]
    /\ UNCHANGED <<agents, mcpAgents, toolIndex, now, seen, last>>

\* the handler's use of the registry (main.go:202-221, 388, 419-430)
Registry(g) ==
    /\ srv[g].pc = "Registry"
    /\ LET env == srv[g].req.env
           reg == IF env.type = EnvelopeRegisterAgent
                  THEN RegistryRegisterAgent(mcpRegistry, env.agent,
                          RegisteredRecord(env.agent, env.body.val, now))
                  ELSE IF /\ env.type = EnvelopeEmbodimentUpdate
                          /\ RegistryGetAgent(mcpRegistry, env.agent)
                  THEN RegistryRegisterAgent(mcpRegistry, env.agent,
                          [UpdatedRecord(mcpAgents[env.agent], env.body.val)
                             EXCEPT !.LastHeartbeat = now])
                  ELSE mcpRegistry
       IN  /\ mcpAgents' = reg.agents
           /\ toolIndex' = reg.index
    /\ srv' = [srv EXCEPT ![g].pc = "Respond"]
    /\ UNCHANGED <<agents, now, seen, last, mu>>

\* the handler encodes its response (main.go:223-231, 367-375, 396-405,
\* 432-438)
Respond(g) ==
    /\ srv[g].pc = "Respond"
    /\ srv' = [srv EXCEPT ![g].pc = "Responded", ![g].responses = @ + 1,
                          ![g].status = 200]
    /\ UNCHANGED <<agents, mcpAgents, toolIndex, now, seen, last, mu>>

\* goroutine 1 serves worker-1's requests of every kind of outcome, while
\* goroutine 2 serves worker-2's requests of the kinds that write the maps
NextLive ==
    /\ \E g \in Goroutines :
          \/ \E tb \in { <<EnvelopeRegisterAgent, LocalCoder>>,
                         <<EnvelopeRevoke, RevokeBody("worker-1")>>,
                         <<EnvelopeEmbodimentUpdate, MovedToCloud>> } :
                Receive(g, GoodRequest(tb, IF g = 1 THEN "worker-1" ELSE "worker-2"))
          \/ \E tb \in { <<EnvelopeRegisterAgent, NoEndpoint>>,
                         <<EnvelopeRegisterAgent, Mistyped>>,
                         <<EnvelopeDiscoverTools,
                           DiscoverToolsBody(ToolQuery({"code-exec"}, "", 0))>>,
                         <<EnvelopeEmitEvent, EmptyObject>>,
                         <<"bogus", EmptyObject>> } :
                g = 1 /\ Receive(g, GoodRequest(tb, "worker-1"))
          \/ \E req \in BareRequests : g = 1 /\ Receive(g, req)
          \/ Serve(g)
          \/ Decode(g)
          \/ Lock(g)
          \/ Write(g)
          \/ Unlock(g)
          \/ Registry(g)
          \/ Respond(g)
    /\ UNCHANGED <<envVars, authVars, concVars, made, ver>>

\* a goroutine that can run does run, and one that waits for b.mu gets it
\* when it is free again and again (sync.RWMutex hands the lock to waiters)
SpecLive ==
    /\ Init
    /\ [][NextLive]_vars
    /\ \A g \in Goroutines :
          /\ WF_<<srv, mu>>(Serve(g) \/ Decode(g) \/ Write(g) \/ Unlock(g)
                              \/ Registry(g) \/ Respond(g))
          /\ SF_<<srv, mu>>(Lock(g))


(***************************************************************************)
(* Properties                                                              *)
(***************************************************************************)
Dispatched == last.handler # "none"

\* the discovery entries of agent id, over every query of the model
EntriesOf(id) ==
    UNION { { found.tools[i] : i \in { j \in 1..Len(found.tools) :
                                          found.tools[j].agentId = id } } :
            found \in { RegistryDiscoverTools(mcpRegistry, q) : q \in Queries } }

\* C1: the broker never hands an envelope to a handler when an envelope with
\* the same (agent, nonce) was handed to a handler before.
C1_NoReplayDispatched == Dispatched => ~last.replay

\* C2: a handler runs only for an envelope whose signature verifies under
\* the public key of the agent it names.
C2_DispatchedOnlyAuthenticated == Dispatched => last.sigOk

\* C3: the agent map and the discovery registry change only in a step that
\* serves a request whose token authorizes the operation (so a token granting
\* only discoverTools leaves them unchanged on registerAgent and on revoke).
C3_SideEffectsNeedAuthorization ==
    [][ (agents' # agents \/ mcpAgents' # mcpAgents \/ toolIndex' # toolIndex)
           => last'.authz = "allow" ]_vars

\* C4: once a registerAgent has been answered "registered", every discovery
\* entry of that agent carries the endpoint, the environment and no tool
\* other than those of that registration.
C4_DiscoveryShowsLatestRegistration ==
    (last.handler = "handleRegisterAgent" /\ last.status = 200) =>
        LET body    == last.body.val
            bodyDef == Field(body, "bodyDefinition", NilBodyDefinition)
        IN  \A d \in EntriesOf(last.agent) :
               /\ d.mcpEndpoint = Field(body, "mcpEndpoint", "")
               /\ d.environmentType = Field(body, "environmentType", "")
               /\ d.mcpTools \subseteq bodyDef.mcpTools

\* C5: once a revoke of target X has been answered "revoked", no discovery
\* result holds an entry of X and a lookup of X finds nothing.
C5_RevokedIsGone ==
    (last.handler = "handleRevoke" /\ last.status = 200) =>
        LET target == Field(last.body.val, "target", "")
        IN  /\ EntriesOf(target) = {}
            /\ ~RegistryGetAgent(mcpRegistry, target)
            /\ target \notin DOMAIN agents

\* C6: Verify under the public key of the pair returns no error on an
\* envelope that Sign under the private key has signed (Sign returned no
\* error) and that was not written since, whatever signature it carried
\* before.
C6_SignThenVerify ==
    (envOp.op = "Verify" /\ signedBy # "none" /\ envOp.key = signedBy)
        => envOp.err = "nil"

C6_Witness ==
    /\ envOp.op = "Verify" /\ envOp.err = "nil"
    /\ signedBy = "k-mallory" /\ envOp.key = signedBy

C8_OutOfWindowRejected ==
    (last.skew <= 0 - MaxTime \/ last.skew >= MaxTime) => ~Dispatched

\* C9 as claimed: every token that has exp <= now is denied with TokenExpired,
\* whatever else it carries.
C9_ExpiredWhateverScope ==
    (decision # "none" /\ "exp" \in tok.has /\ tok.exp <= authNow)
        => decision = "TokenExpired"

\* C9 as amended: every structurally valid token that has exp <= now is
\* denied with TokenExpired, whatever its scope, permissions and jti are and
\* whatever operation is asked for.
C9_ValidExpiredIsTokenExpired ==
    (decision # "none" /\ SchemaValid(tok) /\ tok.exp <= authNow)
        => decision = "TokenExpired"

C9_Witness ==
    /\ decision = "TokenExpired"
    /\ tok.exp = authNow
    /\ ~ScopePermits(tok.scope, op)
    /\ ~InPermissions(op, tok.permissions)

\* C10: authorize allows exactly when the five checks pass, and otherwise
\* answers with the first check that fails, in the order structure, expiry,
\* scope, permission, revocation.
C10_FirstFailingCheck ==
    decision # "none" =>
        LET valid   == SchemaValid(tok)
            live    == authNow < tok.exp
            scoped  == ScopePermits(tok.scope, op)
            granted == InPermissions(op, tok.permissions)
            revoked == "jti" \in tok.has /\ tok.jti \in revokedSet
        IN  /\ decision = "allow" <=> (valid /\ live /\ scoped /\ granted /\ ~revoked)
            /\ ~valid => decision = "TokenMalformed"
            /\ (valid /\ ~live) => decision = "TokenExpired"
            /\ (valid /\ live /\ ~scoped) => decision = "ScopeDenied"
            /\ (valid /\ live /\ scoped /\ ~granted) => decision = "PermissionDenied"
            /\ (valid /\ live /\ scoped /\ granted /\ revoked)
                  => decision = "TokenRevoked"

C10_Witness ==
    /\ decision = "ScopeDenied"
    /\ ~InPermissions(op, tok.permissions)
    /\ "jti" \in tok.has /\ tok.jti \in revokedSet

\* the query of the discovery request served last
LastQuery == Field(last.body.val, "query", ToolQuery({}, "", 0))

Discovered == last.handler = "handleDiscoverTools" /\ last.status = 200

\* C11: every entry of a discovery response has at least one capability in
\* common with the capabilities the query asked for, in every registry state
\* and for every query, the query with no capability included.
C11_DiscoveredIntersects ==
    Discovered =>
        \A i \in 1..Len(last.tools) :
            last.tools[i].capabilities \cap LastQuery.capabilities # {}

C11_Witness ==
    /\ Discovered
    /\ Len(last.tools) = 1
    /\ \E id \in DOMAIN mcpAgents :
          /\ id # last.tools[1].agentId
          /\ CapabilitiesOf(mcpAgents[id]) \cap LastQuery.capabilities = {}

\* C12: in a discovery response an entry stands before another only if it has
\* more capabilities in common with the query, or as many and the more recent
\* heartbeat, or as many, the same heartbeat and the smaller agent id.
C12_DiscoveryOrdered ==
    Discovered =>
        LET t      == last.tools
            n(i)   == Cardinality(t[i].capabilities \cap LastQuery.capabilities)
            hb(i)  == mcpAgents[t[i].agentId].LastHeartbeat
        IN  \A i, j \in 1..Len(t) :
               i < j =>
                  \/ n(i) > n(j)
                  \/ n(i) = n(j) /\ hb(i) > hb(j)
                  \/ n(i) = n(j) /\ hb(i) = hb(j)
                        /\ IdRank(t[i].agentId) < IdRank(t[j].agentId)

\* worker-1 matches one of the two capabilities asked for and has the more
\* recent heartbeat; worker-2 matches both and stands first
C12_Witness ==
    /\ Discovered
    /\ LastQuery.capabilities = {"code-exec", "vision"}
    /\ Len(last.tools) = 2
    /\ last.tools[1].agentId = "worker-2"
    /\ last.tools[2].agentId = "worker-1"
    /\ last.tools[2].capabilities = {"code-exec"}
    /\ mcpAgents["worker-1"].LastHeartbeat > mcpAgents["worker-2"].LastHeartbeat

\* C13: a discovery response holds at most maxResults entries and its hasMore
\* is true exactly when more records matched than maxResults allows.
C13_TruncationFlagged ==
    Discovered =>
        LET matched == RegistryDiscoverTools(mcpRegistry, LastQuery).matched
            limited == LastQuery.maxResults > 0
        IN  /\ limited => Len(last.tools) <= LastQuery.maxResults
            /\ last.hasMore <=> (limited /\ matched > LastQuery.maxResults)

C15_EnumeratedIsRouted ==
    last.type # "none" =>
        /\ last.type \notin EnvelopeTypes
              => (~Dispatched /\ last.reply = "Unknown envelope type")
        /\ last.type \in EnvelopeTypes => Dispatched

\* C16: a call of Verify leaves the envelope as it found it, signature and
\* every other field, whatever it returns.
C16_VerifyLeavesEnvelope ==
    [][ envOp'.op = "Verify" => e' = e ]_vars

\* Verify has cleared the signature, failed to marshal, and put it back
C16_Witness ==
    /\ envOp.op = "Verify" /\ envOp.err = "marshal"
    /\ e.sig = Base64Encode(JunkBytes)
    /\ ~e.body.valid

\* C17 as claimed: Verify returns "envelope has no signature" exactly when
\* the signature is empty, and one of the two signature errors whenever a
\* signature is there and Verify does not succeed.
C17_VerifyErrorKinds ==
    envOp.op = "Verify" =>
        /\ envOp.err = "envelope has no signature" <=> e.sig = NoSig
        /\ (e.sig # NoSig /\ envOp.err # "nil")
              => envOp.err \in {"invalid signature encoding",
                                "signature verification failed"}

\* the signature of the envelope is the base64 form of a signature made
\* with the private key of pub over the envelope's bytes without signature
Validates(env, pub) ==
    /\ env.sig.kind = "base64"
    /\ env.sig.bytes.signer \in PrivKeys
    /\ PubOf(env.sig.bytes.signer) = pub
    /\ env.body.valid
    /\ env.sig.bytes.msg = [type |-> env.type, agent |-> env.agent, ts |-> env.ts,
                            nonce |-> env.nonce, sig |-> NoSig,
                            body |-> Compact(env.body)]

\* C17 as amended: Verify returns "envelope has no signature" exactly when
\* the signature is empty; when a signature is there it returns no error
\* exactly when the signature validates, the marshalling error when the
\* signature decodes and the envelope cannot be marshalled, and one of the
\* two signature errors otherwise.
C17_VerifyErrorKindsMarshalled ==
    envOp.op = "Verify" =>
        LET decodes == e.sig.kind = "base64"
        IN  /\ envOp.err = "envelope has no signature" <=> e.sig = NoSig
            /\ envOp.err = "nil" <=> Validates(e, PubOf(envOp.key))
            /\ envOp.err = "marshal" <=> (decodes /\ ~e.body.valid)
            /\ envOp.err = "invalid signature encoding"
                  <=> (e.sig # NoSig /\ ~decodes)
            /\ envOp.err = "signature verification failed"
                  <=> (decodes /\ e.body.valid /\ ~Validates(e, PubOf(envOp.key)))

\* a signature that cannot be decoded
C17_Witness ==
    /\ envOp.op = "Verify"
    /\ envOp.err = "invalid signature encoding"
    /\ e.sig = NotBase64

\* C18: every entry a discovery returns is the entry of a whole record, one
\* that a registerAgent or an embodimentUpdate begun so far installs: no
\* entry mixes fields of the record before an operation and the one after.
C18_WholeRecordsOnly ==
    Discovered => \A i \in 1..Len(last.tools) : last.tools[i] \in committed

\* C19: the agent map, the registry records and the discovery index change
\* only in a step that serves a registerAgent or a revoke envelope.
C19_OnlyRegisterAndRevokeWrite ==
    [][ (agents' # agents \/ mcpAgents' # mcpAgents \/ toolIndex' # toolIndex)
           => last'.type \in {EnvelopeRegisterAgent, EnvelopeRevoke} ]_vars

\* C20: "updated" is answered only for an agent the registry holds, and
\* "registered" to a registration with an endpoint only when the registry
\* holds the agent.
C20_SuccessMeansEffect ==
    /\ (last.handler = "handleEmbodimentUpdate" /\ last.status = 200)
          => RegistryGetAgent(mcpRegistry, last.agent)
    /\ (last.handler = "handleRegisterAgent" /\ last.status = 200
          /\ Field(last.body.val, "mcpEndpoint", "") # "")
          => RegistryGetAgent(mcpRegistry, last.agent)

\* C21: every agent the discovery registry holds is in the broker's agent
\* map with the same endpoint, and every index entry is of an agent the
\* registry holds.
C21_IndexConsistent ==
    /\ \A id \in DOMAIN mcpAgents :
          /\ id \in DOMAIN agents
          /\ agents[id].Endpoint = mcpAgents[id].MCPEndpoint
    /\ \A p \in toolIndex : p[2] \in DOMAIN mcpAgents

\* C23: the request served right after a revoke of a jti was answered
\* "revoked", when its token carries that jti, is denied with TokenRevoked.
C23_RevokedJtiDenied ==
    [][ ( /\ last.handler = "handleRevoke" /\ last.status = 200
          /\ Field(last.body.val, "target", "") \in Jtis
          /\ last' # last
          /\ last'.jti = Field(last.body.val, "target", "") )
           => last'.authz = "TokenRevoked" ]_vars

\* C26: Sign leaves every field but the signature as it was, and the
\* signature it stores is the one over the envelope's bytes without
\* signature, whatever signature the envelope carried; so signing what Sign
\* has signed, with the same key, changes nothing.
C26_SignIgnoresPriorSignature ==
    [][ envOp'.op = "Sign" =>
          /\ [e' EXCEPT !.sig = NoSig] = [e EXCEPT !.sig = NoSig]
          /\ e'.sig = IF e.body.valid
                      THEN Base64Encode(Ed25519Sign(envOp'.key,
                              [type |-> e.type, agent |-> e.agent, ts |-> e.ts,
                               nonce |-> e.nonce, sig |-> NoSig,
                               body |-> Compact(e.body)]))
                      ELSE NoSig
          /\ Sign(e', envOp'.key).env = e' ]_vars

\* Sign has replaced a signature that another key had made
C26_Witness ==
    /\ envOp.op = "Sign" /\ envOp.err = "nil"
    /\ envOp.prior.kind = "base64"
    /\ envOp.prior.bytes.signer \in PrivKeys \ {envOp.key}
    /\ e.sig.bytes.signer = envOp.key

\* C25: any two envelopes NewEnvelope has made for one agent carry different
\* nonces.
C25_NoncesDistinct ==
    \A i, j \in 1..Len(made) :
        (i # j /\ made[i].agent = made[j].agent) => made[i].nonce # made[j].nonce

\* C24: a Verify with the signer's public key, on an envelope the signer has
\* signed, returns no error whatever other Verify calls run beside it; and
\* once every call has returned the envelope carries its signature.
C24_ConcurrentVerifySucceeds ==
    /\ \A g \in Goroutines :
          (ver[g].pc = "done" /\ ver[g].key = signedBy) => ver[g].err = "nil"
    /\ (\A g \in Goroutines : ver[g].pc \in {"idle", "done"}) => e.sig # NoSig

C27_EveryRequestResponded ==
    /\ [](\A g \in Goroutines :
             /\ srv[g].responses <= 1
             /\ srv[g].pc = "Responded" => (srv[g].responses = 1 /\ srv[g].status # 0)
             /\ mu = ToString(g) <=> srv[g].pc \in {"Write", "Unlock"})
    /\ \A g \in Goroutines :
          (srv[g].pc = "Received") ~> (srv[g].pc = "Responded")

\* a goroutine has its response while the other waits for the lock it has
\* given back
C27_Witness ==
    /\ srv[1].pc = "Responded" /\ srv[1].status = 200
    /\ srv[1].req.env.type = EnvelopeRegisterAgent
    /\ srv[2].pc = "Lock"
    /\ mu = "free"

=============================================================================
